---------------------------- MODULE Spec2Model ----------------------------
(***************************************************************************)
(* SVIM-CONFIRM (src/SVIM_CONFIRM.py): confirmation of structural-variant *)
(* evidence clusters by read-tail mapping.                                *)
(*                                                                         *)
(* Seven specifications share the variables below.                        *)
(*   SpecFusion  the score computation of confirm_clusters_in_contig,     *)
(*               lines 283-303, as a pure function of one cluster's       *)
(*               evidence counts, applied to bounded inputs.              *)
(*   Spec        main(), lines 307-448: load, file-type guess, tail files,*)
(*               tail alignments, the three confirmation waves, output.   *)
(*   SpecRerun   main() on a working directory in any state, interrupted  *)
(*               or not, and run again on what it left.                   *)
(*   SpecTails   create_tail_files, lines 80-186, on the content of the   *)
(*               reads file and of its outputs, called once and again.    *)
(*   SpecAlign   run_tail_alignments, lines 189-257, with the external    *)
(*               processes it starts and the one it waits for.            *)
(*   SpecParams  callPacParams (src/callPacParams.py): the defaults and   *)
(*               set_with_options, applied once and again.                *)
(*   SpecScores  SpecFusion and Spec together, for the range of scores.   *)
(*                                                                         *)
(* The program is Python 3 (pool.starmap, configparser): "/" is true       *)
(* division and math.sqrt raises ValueError on a negative argument.  A     *)
(* computed score 5 * (sqrt(n) + sqrt(p / q)) is kept exactly, as the      *)
(* triple (n, p, q), never rounded.                                        *)
(***************************************************************************)
EXTENDS Integers, Sequences, FiniteSets, TLC

VARIABLES
    f_pc,       \* SpecFusion: "input", "scored", "rc_raised", "sk_raised"
    f_in,       \* SpecFusion: the cluster type, its score and the four counts
    f_out,      \* SpecFusion: outcome of the score computation on f_in
    f_prev,     \* SpecFusion: outcome before one count was raised
    pc,         \* main(): the stage about to run, "done" or "aborted"
    sub,        \* the read set or SV type the stage is working on, or "-"
    options,    \* parse_arguments(): reads suffix and the three thresholds
    wd_exists,  \* os.path.exists(options.working_dir)
    fs,         \* working directory: state of each tail file and artifact
    bundle,     \* content of the loaded .obj file: six cluster collections
    reads_type, \* result of guess_file_type, "-" before the call
    clusters,   \* the six *_evidence_clusters lists of main()
    to_confirm, \* per SV type: dict contig -> clusters (dels_to_confirm_dict..)
    not_to_confirm, \* per SV type: bypassed clusters (dels_not_to_confirm..)
    tasks,      \* the pool's tasks of the current wave, in dispatch order
    bed,        \* per SV type: records this run wrote to <type>_confirmed.bed
    obj_out,    \* collections this run dumped to sv_confirmed_evidences.obj
    error,      \* uncaught exception that ended the run, "-" if none
    events,     \* history: kinds of effects the run has had so far
    ext_failed, \* history: an external process has exited non-zero
    after_failure, \* history: effects that came after such an exit
    run,        \* number of the current run of main() on this working directory
    trace,      \* history: dispatches, merges and output writes of this run
    found,      \* history: state each file was in when this run tested it
    built,      \* history: files this run has opened for writing or built
    reads_opened, \* history: create_tail_files has opened the reads file
    t_pc,       \* SpecTails: "input", "called", "called_twice" or "idle"
    t_in,       \* SpecTails: arguments of create_tail_files and the reads file
    t_dir,      \* SpecTails: content of the three output files, or Absent
    t_call,     \* SpecTails: what each call of create_tail_files did, in order
    a_pc,       \* SpecAlign: the statement run_tail_alignments is at
    a_set,      \* SpecAlign: the read set it is working on, or "-"
    a_fs,       \* SpecAlign: state of the six alignment artifacts
    a_procs,    \* SpecAlign: external processes that are running
    a_log,      \* SpecAlign history: tests, starts and returned waits, in order
    p_pc,       \* SpecParams: "input", "applied", "applied_twice" or "idle"
    p_options,  \* SpecParams: the attributes the options object has
    p_params,   \* SpecParams: the callPacParams record
    p_hist      \* SpecParams history: the record before and after each call

fvars == <<f_pc, f_in, f_out, f_prev>>

mvars == <<pc, sub, options, wd_exists, fs, bundle, reads_type, clusters,
           to_confirm, not_to_confirm, tasks, bed, obj_out, error, events,
           ext_failed, after_failure, run, trace, found, built, reads_opened>>

tvars == <<t_pc, t_in, t_dir, t_call>>

avars == <<a_pc, a_set, a_fs, a_procs, a_log>>

pvars == <<p_pc, p_options, p_params, p_hist>>

vars == <<fvars, mvars, tvars, avars, pvars>>

(***************************************************************************)
(* Bounds of the model.                                                    *)
(***************************************************************************)
MaxCount == 2       \* evidence counts 0..MaxCount, plus ExampleCounts
MaxScore == 2       \* pre-confirmation scores up to MaxScore
NegScore == 1       \* pre-confirmation scores down to -NegScore

\* Counts of the spec's worked example (10, 10, 5, 5) and one above the cap.
ExampleCounts == {5, 10, 100}

Counts == (0 .. MaxCount) \cup ExampleCounts

PreScores == (0 - NegScore) .. MaxScore

SVTypes == {"deletion", "insertion", "inversion"}

Min(a, b) == IF a <= b THEN a ELSE b

(***************************************************************************)
(* Scores.  cluster.score is a number: an integer as loaded or as set by   *)
(* the -1 / 0 branches, or the float 5 * (sqrt(num) + sqrt(rnum / rden)).  *)
(***************************************************************************)
IntScore(v) == [kind |-> "int", val |-> v, num |-> 0, rnum |-> 0, rden |-> 1]

FusedScore(n, p, q) == [kind |-> "fused", val |-> 0, num |-> n, rnum |-> p, rden |-> q]

Returned(s) == [status |-> "ok", score |-> s]

Raised(e) == [status |-> e, score |-> IntScore(0)]

NoOutcome == [status |-> "none", score |-> IntScore(0)]

\* faulty variant: the cap of 100 forgotten
NumConfirmed_NoCap(sk, E) == sk + E

\* line 290 / 297: num_confirmed = min(100, successful_kmer_confirmations + E)
NumConfirmed(sk, E) == Min(100, sk + E)

\* faulty variant: the rate scaled to per mille
RateNumerator_PerMille(sk, E) == (E + sk) * 1000

\* line 292 / 299: numerator of rate_confirmed
RateNumerator(sk, E) == (E + sk) * 100

\* faulty variant: contradictions subtracted instead of added
RateDenominator_Minus(tk, E, rc) == tk + E - rc

\* line 292 / 299: denominator of rate_confirmed
RateDenominator(tk, E, rc) == tk + E + rc

\* lines 290-294 / 297-301 in evaluation order: min, the division
\* (ZeroDivisionError), then sqrt of each operand (ValueError when negative;
\* sqrt(-0.0) is -0.0, no error).
SumOfRoots(sk, tk, rc, E) ==
    LET n == NumConfirmed(sk, E)
        p == RateNumerator(sk, E)
        q == RateDenominator(tk, E, rc)
    IN  IF q = 0 THEN Raised("ZeroDivisionError")
        ELSE IF n < 0 \/ p * q < 0 THEN Raised("ValueError")
        ELSE Returned(FusedScore(n, p, q))

\* faulty variant: the inversion test made before the zero-evidence test
ScoreFusion_InversionFirst(type, pre, sk, tk, re, rc) ==
    IF type = "inversion" /\ pre = 0 THEN Returned(IntScore(0))
    ELSE IF tk + re + rc = 0 THEN Returned(IntScore(-1))
    ELSE IF type = "inversion" THEN SumOfRoots(sk, tk, rc, pre)
    ELSE SumOfRoots(sk, tk, rc, re)

\* faulty variant: the zero-score branch taken for every type
ScoreFusion_ZeroForAll(type, pre, sk, tk, re, rc) ==
    IF tk + re + rc = 0 THEN Returned(IntScore(-1))
    ELSE IF pre = 0 THEN Returned(IntScore(0))
    ELSE IF type = "inversion" THEN SumOfRoots(sk, tk, rc, pre)
    ELSE SumOfRoots(sk, tk, rc, re)

\* faulty variant: the two k-mer counts taken in the wrong order
ScoreFusion_CountsSwapped(type, pre, sk, tk, re, rc) ==
    IF sk + re + rc = 0 THEN Returned(IntScore(-1))
    ELSE IF type = "inversion"
         THEN IF pre = 0 THEN Returned(IntScore(0))
              ELSE SumOfRoots(tk, sk, rc, pre)
         ELSE SumOfRoots(tk, sk, rc, re)

\* lines 283-301: the score of one cluster from its type, its current
\* (pre-confirmation) score and the four evidence counts.
ScoreFusion(type, pre, sk, tk, re, rc) ==
    IF tk + re + rc = 0 THEN Returned(IntScore(-1))
    ELSE IF type = "inversion"
         THEN IF pre = 0 THEN Returned(IntScore(0))
              ELSE SumOfRoots(sk, tk, rc, pre)
         ELSE SumOfRoots(sk, tk, rc, re)

(***************************************************************************)
(* Exact order on scores the computation returns (-1, 0, or a sum of       *)
(* roots): sqrt(n1) + sqrt(p1/q1) <= sqrt(n2) + sqrt(p2/q2), decided in    *)
(* integers.                                                               *)
(***************************************************************************)
Sgn(x) == IF x < 0 THEN -1 ELSE 1

\* sqrt(a) + sqrt(b) <= sqrt(c) + sqrt(d) for naturals a, b, c, d
RootsLeq(a, b, c, d) ==
    LET K == (c + d) - (a + b)
        P == a * b
        Q == c * d
        M == 4 * (P + Q) - K * K
    IN  IF a <= c /\ b <= d THEN TRUE
        ELSE IF a >= c /\ b >= d THEN FALSE
        ELSE IF K >= 0 THEN P <= Q \/ M <= 0 \/ M * M <= 64 * P * Q
        ELSE Q > P /\ M >= 0 /\ M * M >= 64 * P * Q

\* a returned score as (n, p, q) with q > 0
Triple(s) ==
    IF s.kind = "int" THEN [n |-> 0, p |-> 0, q |-> 1]
    ELSE [n |-> s.num, p |-> s.rnum * Sgn(s.rden), q |-> s.rden * Sgn(s.rden)]

ScoreLeq(s, t) ==
    IF s.kind = "int" /\ s.val < 0 THEN t.kind # "int" \/ t.val >= s.val
    ELSE IF t.kind = "int" /\ t.val < 0 THEN FALSE
    ELSE LET x == Triple(s)
             y == Triple(t)
         IN  RootsLeq(x.n * x.q * y.q, x.p * y.q, y.n * x.q * y.q, y.p * x.q)

(***************************************************************************)
(* SpecFusion: the score computation applied to bounded inputs.            *)
(***************************************************************************)
\* the variables of SpecAlign while another specification runs
IdleAlign ==
    /\ a_pc = "idle"
    /\ a_set = "-"
    /\ a_fs = <<>>
    /\ a_procs = {}
    /\ a_log = <<>>

\* the variables of SpecParams while another specification runs
IdleParams ==
    /\ p_pc = "idle"
    /\ p_options = <<>>
    /\ p_params = <<>>
    /\ p_hist = <<>>

\* the variables of SpecTails while another specification runs
IdleTails ==
    /\ t_pc = "idle"
    /\ t_in = <<>>
    /\ t_dir = <<>>
    /\ t_call = <<>>

FusionInputs ==
    [type : SVTypes, pre : PreScores, sk : Counts, tk : Counts, re : Counts, rc : Counts]

Fuse(in) == ScoreFusion(in.type, in.pre, in.sk, in.tk, in.re, in.rc)

\* the variables of main() while another specification runs
IdleMain ==
    /\ pc = "idle"
    /\ sub = "-"
    /\ options = [reads |-> ".fa", confirm_min |-> [t \in SVTypes |-> 0]]
    /\ wd_exists = TRUE
    /\ fs = <<>>
    /\ bundle = <<>>
    /\ reads_type = "-"
    /\ clusters = <<>>
    /\ to_confirm = <<>>
    /\ not_to_confirm = <<>>
    /\ tasks = <<>>
    /\ bed = <<>>
    /\ obj_out = <<>>
    /\ error = "-"
    /\ events = {}
    /\ ext_failed = FALSE
    /\ after_failure = {}
    /\ run = 1
    /\ trace = <<>>
    /\ found = <<>>
    /\ built = {}
    /\ reads_opened = FALSE

InitFusion ==
    /\ f_pc = "input"
    /\ f_in \in FusionInputs
    /\ f_out = NoOutcome
    /\ f_prev = NoOutcome
    /\ IdleMain
    /\ IdleTails
    /\ IdleAlign
    /\ IdleParams

\* lines 283-303 for the cluster and counts of f_in
FuseScore ==
    /\ f_pc = "input"
    /\ f_out' = Fuse(f_in)
    /\ f_pc' = "scored"
    /\ UNCHANGED <<f_in, f_prev, mvars, tvars, avars, pvars>>

\* the same cluster evaluated again with more read_contradictions
RaiseContradictions ==
    /\ f_pc = "scored"
    /\ \E c \in Counts :
        /\ c > f_in.rc
        /\ f_in' = [f_in EXCEPT !.rc = c]
    /\ f_prev' = f_out
    /\ f_out' = Fuse(f_in')
    /\ f_pc' = "rc_raised"
    /\ UNCHANGED <<mvars, tvars, avars, pvars>>

\* the same cluster evaluated again with more successful_kmer_confirmations
RaiseConfirmations ==
    /\ f_pc = "scored"
    /\ \E c \in Counts :
        /\ c > f_in.sk
        /\ f_in' = [f_in EXCEPT !.sk = c]
    /\ f_prev' = f_out
    /\ f_out' = Fuse(f_in')
    /\ f_pc' = "sk_raised"
    /\ UNCHANGED <<mvars, tvars, avars, pvars>>

NextFusion == FuseScore \/ RaiseContradictions \/ RaiseConfirmations

SpecFusion == InitFusion /\ [][NextFusion]_vars


(***************************************************************************)
(* main(): inputs.                                                         *)
(***************************************************************************)
MaxClusters == 2    \* clusters in one collection of the loaded bundle
MaxSpan == 3        \* longest cluster span; max_sv_size is MaxSpan - 1

AllTypes == SVTypes \cup {"tandem_duplication", "insertion_from", "translocation"}

\* Contigs are numbered in the sorted order of their names.
Contigs == {1, 2}

\* Scores of loaded clusters
PipelineScores == {-1, 0, 1}

\* Values of --confirm_del_min, --confirm_ins_min, --confirm_inv_min
\* (type=int, default 0)
Thresholds == {-1, 0, 2}

\* Endings of options.reads: one per branch of guess_file_type, two unknown.
ReadsSuffixes == {".fa", ".FQ", ".fasta.gz", ".fq.gzip", ".fa.fn", ".txt"}

\* parameters["max_sv_size"], set by read_parameters
max_sv_size == MaxSpan - 1

\* (sk, tk, re, rc) as returned by the two evidence extractors of a type
Evidence == {<<0, 0, 0, 0>>, <<1, 1, 0, 0>>}

Files == {"left_fa", "right_fa", "full_fa", "left_aln", "left_aln_index",
          "right_aln", "right_aln_index", "full_aln", "full_aln_index"}

\* the order in which one run creates the files
BuildOrder == <<"left_fa", "right_fa", "full_fa", "left_aln", "left_aln_index",
                "right_aln", "right_aln_index", "full_aln", "full_aln_index">>

Fa(set) == IF set = "left" THEN "left_fa" ELSE IF set = "right" THEN "right_fa" ELSE "full_fa"

Aln(set) == IF set = "left" THEN "left_aln" ELSE IF set = "right" THEN "right_aln" ELSE "full_aln"

AlnIndex(set) ==
    IF set = "left" THEN "left_aln_index"
    ELSE IF set = "right" THEN "right_aln_index" ELSE "full_aln_index"

Cluster(i, k) ==
    [id |-> i, contig |-> k.contig, start |-> k.start, end |-> k.end,
     score |-> IntScore(k.val)]

ClusterKinds(type) ==
    [contig : Contigs, start : {0},
     end : {1, MaxSpan},
     val : PipelineScores]

\* every collection of at most MaxClusters clusters of a type
Collections(type) ==
    UNION {{[i \in 1 .. n |-> Cluster(i, ks[i])] : ks \in [1 .. n -> ClusterKinds(type)]} :
           n \in 0 .. MaxClusters}

OneCluster == <<Cluster(1, [contig |-> 1, start |-> 0, end |-> 1, val |-> 1])>>

DefaultThresholds == [t \in SVTypes |-> 0]

\* the working directory left by the first k file creations of an earlier run
FilesAfter(k) ==
    [f \in Files |-> IF \E i \in 1 .. k : BuildOrder[i] = f THEN "complete" ELSE "absent"]

EmptyDicts == [t \in SVTypes |-> <<>>]

(***************************************************************************)
(* guess_file_type, lines 59-77, on the ending of the path.                *)
(***************************************************************************)
guess_file_type(reads) ==
    IF reads \in {".fa", ".fasta", ".FA"} THEN "fasta"
    ELSE IF reads \in {".fq", ".fastq", ".FQ"} THEN "fastq"
    ELSE IF reads \in {".fa.gz", ".fasta.gz", ".fa.gzip", ".fasta.gzip"} THEN "fasta_gzip"
    ELSE IF reads \in {".fq.gz", ".fastq.gz", ".fq.gzip", ".fastq.gzip"} THEN "fastq_gzip"
    ELSE IF reads = ".fa.fn" THEN "list"
    ELSE "unknown"

(***************************************************************************)
(* The partition loops of main(), lines 365-373, 385-393, 405-414.         *)
(***************************************************************************)
\* faulty variant: the span test applied to every type
Confirmable_SpanForAll(type, c) ==
    c.score.val >= options.confirm_min[type] /\ c.end - c.start <= max_sv_size

\* faulty variant: strict comparison with the threshold
Confirmable_Strict(type, c) ==
    /\ c.score.val > options.confirm_min[type]
    /\ type = "inversion" => c.end - c.start <= max_sv_size

\* lines 368, 388, 409: the test that sends a cluster to confirmation
Confirmable(type, c) ==
    /\ c.score.val >= options.confirm_min[type]
    /\ type = "inversion" => c.end - c.start <= max_sv_size

\* defaultdict(list): dict[contig].append(c)
DictAppend(dict, contig, c) ==
    IF contig \in DOMAIN dict
    THEN [dict EXCEPT ![contig] = Append(@, c)]
    ELSE [k \in DOMAIN dict \cup {contig} |-> IF k = contig THEN <<c>> ELSE dict[k]]

\* faulty variant: a bypassed cluster is zeroed but not kept
PartitionStep_Dropped(type, st, i) ==
    LET c == st.coll[i]
    IN  IF Confirmable(type, c)
        THEN [st EXCEPT !.dict = DictAppend(st.dict, c.contig, c)]
        ELSE [st EXCEPT !.coll[i].score = IntScore(0)]

\* one iteration of the loop: cluster i of the collection
PartitionStep(type, st, i) ==
    LET c == st.coll[i]
    IN  IF Confirmable(type, c)
        THEN [st EXCEPT !.dict = DictAppend(st.dict, c.contig, c)]
        ELSE [st EXCEPT !.coll[i].score = IntScore(0),
                        !.bypassed = Append(@, [c EXCEPT !.score = IntScore(0)])]

RECURSIVE PartitionLoop(_, _, _)
PartitionLoop(type, st, i) ==
    IF i > Len(st.coll) THEN st
    ELSE PartitionLoop(type, PartitionStep(type, st, i), i + 1)

RECURSIVE Sorted(_)
\* sorted(dict.keys())
Sorted(S) ==
    IF S = {} THEN <<>>
    ELSE LET m == CHOOSE x \in S : \A y \in S : x <= y
         IN  <<m>> \o Sorted(S \ {m})

RECURSIVE Chain(_)
\* list(itertools.chain.from_iterable(lists))
Chain(lists) ==
    IF lists = <<>> THEN <<>> ELSE Head(lists) \o Chain(Tail(lists))

\* cluster.get_bed_entry(): contig, start, end, score of the interval record
get_bed_entry(c) == [contig |-> c.contig, start |-> c.start, end |-> c.end, score |-> c.score]

(***************************************************************************)
(* Spec: main().                                                           *)
(***************************************************************************)
IdleFusion ==
    /\ f_pc = "idle"
    /\ f_in = [type |-> "deletion", pre |-> 0, sk |-> 0, tk |-> 0, re |-> 0, rc |-> 0]
    /\ f_out = NoOutcome
    /\ f_prev = NoOutcome

InitMain ==
    /\ pc = "logging"
    /\ sub = "-"
    /\ reads_type = "-"
    /\ clusters = [t \in AllTypes |-> <<>>]
    /\ to_confirm = EmptyDicts
    /\ not_to_confirm = [t \in SVTypes |-> <<>>]
    /\ tasks = <<>>
    /\ bed = [t \in SVTypes |-> <<>>]
    /\ obj_out = <<>>
    /\ error = "-"
    /\ events = {}
    /\ ext_failed = FALSE
    /\ after_failure = {}
    /\ run = 1
    /\ trace = <<>>
    /\ found = <<>>
    /\ built = {}
    /\ reads_opened = FALSE

\* any reads file and any state of the working directory, one small bundle
InitEnvironment ==
    /\ options \in [reads : ReadsSuffixes, confirm_min : {DefaultThresholds}]
    /\ wd_exists \in BOOLEAN
    /\ fs \in {FilesAfter(k) : k \in 0 .. (IF wd_exists THEN Len(BuildOrder) ELSE 0)}
    /\ bundle = [t \in AllTypes |-> OneCluster]

\* any collection of one SV type and any threshold for it, in a working
\* directory that an earlier run has completed
InitBundle ==
    /\ \E t \in SVTypes :
         /\ \E coll \in Collections(t) :
              bundle = [u \in AllTypes |-> IF u = t THEN coll
                                          ELSE IF u \in SVTypes THEN <<>> ELSE OneCluster]
         /\ \E m \in Thresholds :
              options = [reads |-> ".fa",
                         confirm_min |-> [u \in SVTypes |-> IF u = t THEN m ELSE 0]]
    /\ wd_exists = TRUE
    /\ fs = FilesAfter(Len(BuildOrder))

Init ==
    /\ IdleFusion /\ IdleTails /\ IdleAlign /\ IdleParams
    /\ InitMain /\ (InitEnvironment \/ InitBundle)

Effects(E) ==
    /\ events' = events \cup E
    /\ after_failure' = IF ext_failed THEN after_failure \cup E ELSE after_failure

Abort(e) ==
    /\ pc' = "aborted"
    /\ sub' = "-"
    /\ error' = e

\* faulty variant: the working directory taken to exist
DirExists_Always == TRUE

\* line 82, os.path.exists(working_dir); line 317 opens a file in that
\* directory, which succeeds only if the directory exists
DirExists == wd_exists

\* faulty variant: an index is built again when its alignment was built
NeedsBuild_WithAlignment(f) ==
    \/ fs[f] = "absent"
    \/ \E set \in {"left", "right", "full"} : f = AlnIndex(set) /\ Aln(set) \in built

\* lines 88, 95, 104, 202, 213, 219, 230, 238, 251: not os.path.exists(f)
NeedsBuild(f) == fs[f] = "absent"

\* found with the state of the files of S as they are now
Checked(S) == [f \in DOMAIN found \cup S |-> IF f \in S THEN fs[f] ELSE found[f]]

\* lines 313-327: logging.FileHandler opens a log file in the working directory
SetUpLogging ==
    /\ pc = "logging"
    /\ IF DirExists
       THEN pc' = "load" /\ UNCHANGED <<sub, error>>
       ELSE Abort("FileNotFoundError")
    /\ UNCHANGED <<fvars, tvars, avars, pvars, run, options, wd_exists, fs, bundle, reads_type, clusters,
                   to_confirm, not_to_confirm, tasks, bed, obj_out, events, ext_failed,
                   after_failure, trace, found, built, reads_opened>>

\* lines 329-339: pickle.load of the six collections
LoadBundle ==
    /\ pc = "load"
    /\ clusters' = bundle
    /\ pc' = "guess"
    /\ UNCHANGED <<fvars, tvars, avars, pvars, run, sub, options, wd_exists, fs, bundle, reads_type,
                   to_confirm, not_to_confirm, tasks, bed, obj_out, error, events,
                   ext_failed, after_failure, trace, found, built, reads_opened>>

\* line 341: the result is stored and not inspected
GuessFileType ==
    /\ pc = "guess"
    /\ reads_type' = guess_file_type(options.reads)
    /\ pc' = "tails"
    /\ UNCHANGED <<fvars, tvars, avars, pvars, run, sub, options, wd_exists, fs, bundle, clusters,
                   to_confirm, not_to_confirm, tasks, bed, obj_out, error, events,
                   ext_failed, after_failure, trace, found, built, reads_opened>>

\* the outputs create_tail_files tests for: lines 88, 95 and, for the two
\* compressed formats, 104
TailOutputs(rtype) ==
    {"left_fa", "right_fa"}
        \cup (IF rtype \in {"fasta_gzip", "fastq_gzip"} THEN {"full_fa"} ELSE {})

\* line 342, create_tail_files (lines 80-186) on a reads file that is not
\* empty: each absent output is opened for writing; the reads file is opened
\* when an output was opened and the format is one of the four parsed ones.
\* A plain file is then copied into the opened outputs.  A compressed file
\* is read as bytes, and the first line.startswith('>') or ('@') of lines
\* 123, 158 raises TypeError, the opened outputs left empty.
CreateTailFiles ==
    /\ pc = "tails"
    /\ IF ~DirExists
       THEN /\ Abort("SystemExit")
            /\ UNCHANGED <<fs, events, after_failure, found, built, reads_opened>>
       ELSE LET gzip == reads_type \in {"fasta_gzip", "fastq_gzip"}
                parsed == reads_type \in {"fasta", "fastq", "fasta_gzip", "fastq_gzip"}
                opened == {f \in TailOutputs(reads_type) : NeedsBuild(f)}
                reading == opened # {} /\ parsed
            IN  /\ found' = Checked(TailOutputs(reads_type))
                /\ built' = built \cup opened
                /\ reads_opened' = reading
                /\ Effects(IF opened = {} THEN {} ELSE {"tail_file_created"})
                /\ IF reading /\ gzip
                   THEN /\ fs' = [f \in Files |-> IF f \in opened THEN "empty" ELSE fs[f]]
                        /\ Abort("TypeError")
                   ELSE /\ fs' = [f \in Files |->
                                    IF f \in opened
                                    THEN (IF parsed THEN "complete" ELSE "empty")
                                    ELSE fs[f]]
                        /\ pc' = "align"
                        /\ sub' = "left"
                        /\ UNCHANGED error
    /\ UNCHANGED <<fvars, tvars, avars, pvars, run, options, wd_exists, bundle, reads_type, clusters,
                   to_confirm, not_to_confirm, tasks, bed, obj_out, ext_failed, trace>>

NextSet(set) == IF set = "left" THEN "right" ELSE IF set = "right" THEN "full" ELSE "-"

ExitCodes == {0, 1}

\* run_tail_alignments, lines 202-208, 219-225, 238-245: when the sorted
\* alignment of the read set is absent the aligner, the converter and the
\* sorter are started, chained by pipes; otherwise the step is skipped.
StartAlignment ==
    /\ pc = "align"
    /\ found' = Checked({Aln(sub)})
    /\ IF NeedsBuild(Aln(sub))
       THEN /\ pc' = "wait"
            /\ built' = built \cup {Aln(sub)}
            /\ Effects({"process_launched"})
       ELSE /\ pc' = "index"
            /\ UNCHANGED <<built, events, after_failure>>
    /\ UNCHANGED <<fvars, tvars, avars, pvars, run, sub, options, wd_exists, fs, bundle, reads_type,
                   clusters, to_confirm, not_to_confirm, tasks, bed, obj_out, error,
                   ext_failed, trace, reads_opened>>

\* lines 209, 226, 246: sort.wait() returns; no exit status is looked at.  A
\* chain whose three processes succeed leaves the sorted alignment; a chain
\* with a failed process leaves no file or whatever part was written.
WaitForSort ==
    /\ pc = "wait"
    /\ \E ngmlr \in ExitCodes, view \in ExitCodes, sort \in ExitCodes :
         IF ngmlr = 0 /\ view = 0 /\ sort = 0
         THEN /\ fs' = [fs EXCEPT ![Aln(sub)] = "complete"]
              /\ UNCHANGED ext_failed
         ELSE /\ \E left \in {"absent", "partial"} : fs' = [fs EXCEPT ![Aln(sub)] = left]
              /\ ext_failed' = TRUE
    /\ pc' = "index"
    /\ UNCHANGED <<fvars, tvars, avars, pvars, run, sub, options, wd_exists, bundle, reads_type, clusters,
                   to_confirm, not_to_confirm, tasks, bed, obj_out, error, events,
                   after_failure, trace, found, built, reads_opened>>

\* lines 213-217, 230-234, 251-255: call() of the indexer when the index is
\* absent; its return value is dropped.  Control then passes to the next
\* read set, or back to main().
IndexAlignment ==
    /\ pc = "index"
    /\ found' = Checked({AlnIndex(sub)})
    /\ IF NeedsBuild(AlnIndex(sub))
       THEN /\ Effects({"process_launched"})
            /\ built' = built \cup {AlnIndex(sub)}
            /\ \E code \in ExitCodes :
                 /\ code = 0 => fs[Aln(sub)] # "absent"
                 /\ fs' = [fs EXCEPT ![AlnIndex(sub)] =
                                        IF code = 0 THEN "complete" ELSE "absent"]
                 /\ ext_failed' = (ext_failed \/ code # 0)
       ELSE UNCHANGED <<fs, events, after_failure, ext_failed, built>>
    /\ IF NextSet(sub) = "-"
       THEN pc' = "open" /\ sub' = "-"
       ELSE pc' = "align" /\ sub' = NextSet(sub)
    /\ UNCHANGED <<fvars, tvars, avars, pvars, run, options, wd_exists, bundle, reads_type, clusters,
                   to_confirm, not_to_confirm, tasks, bed, obj_out, error, trace,
                   reads_opened>>

AlnFiles == {"left_aln", "right_aln", "full_aln"}

\* lines 348-359: pysam.AlignmentFile on the three sorted alignments raises
\* on a missing file and may raise on a file a failed chain left behind;
\* then the sequence indices and the pool are created.
OpenAlignments ==
    /\ pc = "open"
    /\ \/ /\ \A f \in AlnFiles : fs[f] # "absent"
          /\ pc' = "partition"
          /\ sub' = "deletion"
          /\ UNCHANGED error
       \/ /\ \E f \in AlnFiles : fs[f] # "complete"
          /\ Abort("OSError")
    /\ UNCHANGED <<fvars, tvars, avars, pvars, run, options, wd_exists, fs, bundle, reads_type, clusters,
                   to_confirm, not_to_confirm, tasks, bed, obj_out, events, ext_failed,
                   after_failure, trace, found, built, reads_opened>>

\* lines 365-373, 385-393, 405-414: the partition loop of the current type.
\* Bypassed clusters are zeroed in place, so the collection shows it too.
Partition ==
    /\ pc = "partition"
    /\ LET st == PartitionLoop(sub, [coll |-> clusters[sub], dict |-> <<>>,
                                     bypassed |-> <<>>], 1)
       IN  /\ to_confirm' = [to_confirm EXCEPT ![sub] = st.dict]
           /\ not_to_confirm' = [not_to_confirm EXCEPT ![sub] = st.bypassed]
           /\ clusters' = [clusters EXCEPT ![sub] = st.coll]
    /\ trace' = Append(trace, <<"partition", sub>>)
    /\ pc' = "dispatch"
    /\ UNCHANGED <<fvars, tvars, avars, pvars, run, sub, options, wd_exists, fs, bundle, reads_type,
                   tasks, bed, obj_out, error, events, ext_failed, after_failure,
                   found, built, reads_opened>>

\* one argument tuple of confirm_clusters_in_contig (line 377), as a task of
\* the pool; seen is the history of the counts its extractors have returned
Task(cs, type) ==
    [clusters |-> cs, type |-> type, next |-> 1, status |-> "running", error |-> "-",
     seen |-> <<>>]

\* faulty variant: contigs taken in descending order
TaskList_Descending(dict, type) ==
    LET keys == Sorted(DOMAIN dict)
        n == Len(keys)
    IN  [i \in 1 .. n |-> Task(dict[keys[n + 1 - i]], type)]

\* lines 375-377, 395-397, 416-418: one task per key of the dict, keys sorted
TaskList(dict, type) ==
    LET keys == Sorted(DOMAIN dict)
    IN  [i \in 1 .. Len(keys) |-> Task(dict[keys[i]], type)]

\* lines 375-378, 395-398, 416-419: the tasks are handed to pool.starmap
Dispatch ==
    /\ pc = "dispatch"
    /\ tasks' = TaskList(to_confirm[sub], sub)
    /\ Effects(IF DOMAIN to_confirm[sub] = {} THEN {} ELSE {"wave_dispatched"})
    /\ trace' = Append(trace, <<"dispatch", sub>>)
    /\ pc' = "pool"
    /\ UNCHANGED <<fvars, tvars, avars, pvars, run, sub, options, wd_exists, fs, bundle, reads_type,
                   clusters, to_confirm, not_to_confirm, bed, obj_out, error, ext_failed,
                   found, built, reads_opened>>

\* faulty variant: the score is stored in the first cluster of the list
AssignScore_First(t, s) ==
    [t EXCEPT !.clusters[1].score = s,
              !.next = t.next + 1,
              !.status = IF t.next = Len(t.clusters) THEN "done" ELSE "running"]

\* line 303 and the loop of line 272: cluster.score = score, then the next
\* cluster of the list, or the return of line 305
AssignScore(t, s) ==
    [t EXCEPT !.clusters[t.next].score = s,
              !.next = t.next + 1,
              !.status = IF t.next = Len(t.clusters) THEN "done" ELSE "running"]

\* lines 272-303 in a worker: the next cluster of one task goes through the
\* two evidence extractors and the score computation; an exception ends the
\* task.  The extractors read the three alignments through their indices.
EvaluateCluster ==
    /\ pc = "pool"
    /\ \E i \in 1 .. Len(tasks) :
         /\ tasks[i].status = "running"
         /\ LET t == tasks[i]
                c == t.clusters[t.next]
            IN  \/ \E ev \in Evidence :
                     LET o == ScoreFusion(t.type, c.score.val, ev[1], ev[2], ev[3], ev[4])
                         u == [t EXCEPT !.seen = Append(@, ev)]
                     IN  tasks' = [tasks EXCEPT ![i] =
                            IF o.status = "ok"
                            THEN AssignScore(u, o.score)
                            ELSE [u EXCEPT !.status = "raised", !.error = o.status]]
                \/ /\ \E f \in Files \ {"left_fa", "right_fa", "full_fa"} : fs[f] # "complete"
                   /\ tasks' = [tasks EXCEPT ![i] =
                                   [t EXCEPT !.status = "raised", !.error = "ExtractorError"]]
    /\ UNCHANGED <<fvars, tvars, avars, pvars, run, pc, sub, options, wd_exists, fs, bundle, reads_type,
                   clusters, to_confirm, not_to_confirm, bed, obj_out, error, events,
                   ext_failed, after_failure, trace, found, built, reads_opened>>

\* pool.starmap re-raises in main() the exception of a task
PoolFailure ==
    /\ pc = "pool"
    /\ \E i \in 1 .. Len(tasks) :
         /\ tasks[i].status = "raised"
         /\ Abort(tasks[i].error)
    /\ UNCHANGED <<fvars, tvars, avars, pvars, run, options, wd_exists, fs, bundle, reads_type, clusters,
                   to_confirm, not_to_confirm, tasks, bed, obj_out, events, ext_failed,
                   after_failure, trace, found, built, reads_opened>>

\* faulty variant: the inversions confirmed before the insertions
NextType_InversionsFirst(type) ==
    IF type = "deletion" THEN "inversion" ELSE IF type = "inversion" THEN "insertion" ELSE "-"

\* lines 361, 381, 401: the order of the three blocks of main()
NextType(type) ==
    IF type = "deletion" THEN "insertion" ELSE IF type = "insertion" THEN "inversion" ELSE "-"

\* faulty variant: a task that raised counts as finished
AllReturned_OrRaised == \A i \in 1 .. Len(tasks) : tasks[i].status \in {"done", "raised"}

\* line 378, 398, 419: pool.starmap returns when every task has returned
AllReturned == \A i \in 1 .. Len(tasks) : tasks[i].status = "done"

\* faulty variant: only the results of the tasks are kept
MergeResults_TasksOnly(results, bypassed) == Chain(results)

\* lines 379, 399, 420: list(itertools.chain.from_iterable(results)) + bypassed
MergeResults(results, bypassed) == Chain(results) \o bypassed

\* lines 378-379, 398-399, 419-420: starmap returns the lists of all tasks in
\* task order; they are chained and the bypassed clusters appended
Merge ==
    /\ pc = "pool"
    /\ AllReturned
    /\ clusters' = [clusters EXCEPT ![sub] =
                       MergeResults([i \in 1 .. Len(tasks) |-> tasks[i].clusters],
                                    not_to_confirm[sub])]
    /\ trace' = Append(trace, <<"merge", sub>>)
    /\ IF NextType(sub) = "-"
       THEN pc' = "write" /\ sub' = "-"
       ELSE pc' = "partition" /\ sub' = NextType(sub)
    /\ UNCHANGED <<fvars, tvars, avars, pvars, run, options, wd_exists, fs, bundle, reads_type,
                   to_confirm, not_to_confirm, tasks, bed, obj_out, error, events,
                   ext_failed, after_failure, found, built, reads_opened>>

\* lines 425-439: one record per cluster in each of the three interval files
WriteIntervals ==
    /\ pc = "write"
    /\ bed' = [t \in SVTypes |->
                 [i \in 1 .. Len(clusters[t]) |-> get_bed_entry(clusters[t][i])]]
    /\ Effects({"interval_written"})
    /\ trace' = Append(trace, <<"intervals", "-">>)
    /\ pc' = "dump"
    /\ UNCHANGED <<fvars, tvars, avars, pvars, run, sub, options, wd_exists, fs, bundle, reads_type,
                   clusters, to_confirm, not_to_confirm, tasks, obj_out, error,
                   ext_failed, found, built, reads_opened>>

\* lines 444-448: the six collections are pickled
DumpBundle ==
    /\ pc = "dump"
    /\ obj_out' = clusters
    /\ Effects({"bundle_written"})
    /\ trace' = Append(trace, <<"bundle", "-">>)
    /\ pc' = "done"
    /\ UNCHANGED <<fvars, tvars, avars, pvars, run, sub, options, wd_exists, fs, bundle, reads_type,
                   clusters, to_confirm, not_to_confirm, tasks, bed, error, ext_failed,
                   found, built, reads_opened>>

Next ==
    \/ SetUpLogging
    \/ LoadBundle
    \/ GuessFileType
    \/ CreateTailFiles
    \/ StartAlignment
    \/ WaitForSort
    \/ IndexAlignment
    \/ OpenAlignments
    \/ Partition
    \/ Dispatch
    \/ EvaluateCluster
    \/ PoolFailure
    \/ Merge
    \/ WriteIntervals
    \/ DumpBundle

Spec == Init /\ [][Next]_vars

(***************************************************************************)
(* SpecRerun: main() run on a working directory in any state, stopped by   *)
(* an interruption or not, and run again on what it left.                  *)
(***************************************************************************)
MaxRuns == 2        \* runs of main() on one working directory

Artifacts == {"left_aln", "left_aln_index", "right_aln", "right_aln_index",
              "full_aln", "full_aln_index"}

\* Endings of options.reads: a plain, a compressed and an unknown one
RerunSuffixes == {".fa", ".fq.gzip", ".txt"}

\* a plain or compressed reads file or one of unknown format, any set of
\* files left in the working directory, a bundle of one deletion
InitRerun ==
    /\ IdleFusion
    /\ IdleTails
    /\ IdleAlign
    /\ IdleParams
    /\ InitMain
    /\ options \in [reads : RerunSuffixes, confirm_min : {DefaultThresholds}]
    /\ wd_exists = TRUE
    /\ fs \in [Files -> {"absent", "complete"}]
    /\ bundle = [t \in AllTypes |-> IF t = "deletion" THEN OneCluster ELSE <<>>]

\* the process is killed in the loop of lines 122-140 or 157-175, while the
\* outputs it opened are being written
InterruptTails ==
    /\ pc = "tails"
    /\ DirExists
    /\ reads_type \in {"fasta", "fastq"}
    /\ LET opened == {f \in TailOutputs(reads_type) : NeedsBuild(f)}
       IN  /\ opened # {}
           /\ fs' = [f \in Files |-> IF f \in opened THEN "partial" ELSE fs[f]]
           /\ found' = Checked(TailOutputs(reads_type))
           /\ built' = built \cup opened
    /\ reads_opened' = TRUE
    /\ Effects({"tail_file_created"})
    /\ Abort("KeyboardInterrupt")
    /\ UNCHANGED <<fvars, tvars, avars, pvars, run, options, wd_exists, bundle, reads_type, clusters,
                   to_confirm, not_to_confirm, tasks, bed, obj_out, ext_failed, trace>>

\* the processes are killed in sort.wait(), lines 209, 226, 246, while the
\* sorted alignment is being produced
InterruptAlignment ==
    /\ pc = "wait"
    /\ \E left \in {"absent", "partial"} : fs' = [fs EXCEPT ![Aln(sub)] = left]
    /\ Abort("KeyboardInterrupt")
    /\ UNCHANGED <<fvars, tvars, avars, pvars, run, options, wd_exists, bundle, reads_type, clusters,
                   to_confirm, not_to_confirm, tasks, bed, obj_out, events, ext_failed,
                   after_failure, trace, found, built, reads_opened>>

\* main() is started again with the same arguments on the same directory
Rerun ==
    /\ pc \in {"aborted", "done"}
    /\ run < MaxRuns
    /\ run' = run + 1
    /\ pc' = "logging"
    /\ sub' = "-"
    /\ reads_type' = "-"
    /\ clusters' = [t \in AllTypes |-> <<>>]
    /\ to_confirm' = EmptyDicts
    /\ not_to_confirm' = [t \in SVTypes |-> <<>>]
    /\ tasks' = <<>>
    /\ bed' = [t \in SVTypes |-> <<>>]
    /\ obj_out' = <<>>
    /\ error' = "-"
    /\ events' = {}
    /\ ext_failed' = FALSE
    /\ after_failure' = {}
    /\ trace' = <<>>
    /\ found' = <<>>
    /\ built' = {}
    /\ reads_opened' = FALSE
    /\ UNCHANGED <<fvars, tvars, avars, pvars, options, wd_exists, fs, bundle>>

NextRerun ==
    \/ Next
    \/ InterruptTails
    \/ InterruptAlignment
    \/ Rerun

SpecRerun == InitRerun /\ [][NextRerun]_vars

(***************************************************************************)
(* create_tail_files, lines 80-186, on the content of the files.           *)
(*                                                                         *)
(* A string of bases is a sequence of segments, each a range of one line   *)
(* of the reads file; a record of an output file is a name line and a      *)
(* sequence line.                                                          *)
(***************************************************************************)
MaxReads == 2       \* reads in the reads file

\* lines 125, 142, 164: len(sequence) > 2000
TailThreshold == 2000

\* lengths of the sequence lines of the reads file
LineLengths == {1000, 1001}

\* parameters["tail_span"]
Spans == {1000, 3000}

Segment(read, chunk, len) == [read |-> read, chunk |-> chunk, a |-> 0, b |-> len]

RECURSIVE StrLen(_)
\* len(sequence)
StrLen(s) == IF s = <<>> THEN 0 ELSE (Head(s).b - Head(s).a) + StrLen(Tail(s))

RECURSIVE Take(_, _)
\* the first n bases of s
Take(s, n) ==
    IF s = <<>> \/ n <= 0 THEN <<>>
    ELSE LET h == Head(s)
             l == h.b - h.a
         IN  IF l <= n THEN <<h>> \o Take(Tail(s), n - l)
             ELSE <<[h EXCEPT !.b = h.a + n]>>

RECURSIVE Drop(_, _)
\* s without its first n bases
Drop(s, n) ==
    IF s = <<>> \/ n <= 0 THEN s
    ELSE LET h == Head(s)
             l == h.b - h.a
         IN  IF l <= n THEN Drop(Tail(s), n - l)
             ELSE <<[h EXCEPT !.a = h.a + n]>> \o Tail(s)

\* lines 127, 144, 166: sequence[:span]
SliceLeft(s, span) == Take(s, span)

\* lines 131, 148, 170: sequence[-span:], for span > 0
SliceRight(s, span) ==
    IF StrLen(s) <= span THEN s ELSE Drop(s, StrLen(s) - span)

\* the reads of a reads file: read i is named i; its sequence is made of
\* chunks, one per line in FASTA; at marks a FASTQ quality line that starts
\* with '@'
ReadKinds == [chunks : [1 .. 1 -> LineLengths] \cup [1 .. 2 -> LineLengths], at : BOOLEAN]

ReadFiles == UNION {[1 .. n -> ReadKinds] : n \in 0 .. MaxReads}

\* the whole sequence of read i
ReadSequence(reads, i) ==
    [j \in 1 .. Len(reads[i].chunks) |-> Segment(i, j, reads[i].chunks[j])]

HeaderLine(mark, i) == [first |-> mark, name |-> i, seq |-> <<>>]

SequenceLine(s) == [first |-> "base", name |-> 0, seq |-> s]

OtherLine(mark) == [first |-> mark, name |-> 0, seq |-> <<>>]

RECURSIVE FastaLines(_, _)
\* the lines of a FASTA file with these reads, from read i on
FastaLines(reads, i) ==
    IF i > Len(reads) THEN <<>>
    ELSE <<HeaderLine(">", i)>>
         \o [j \in 1 .. Len(reads[i].chunks) |->
                SequenceLine(<<Segment(i, j, reads[i].chunks[j])>>)]
         \o FastaLines(reads, i + 1)

RECURSIVE FastqLines(_, _)
\* the lines of a FASTQ file with these reads, from read i on: header,
\* sequence on one line, separator, qualities
FastqLines(reads, i) ==
    IF i > Len(reads) THEN <<>>
    ELSE <<HeaderLine("@", i), SequenceLine(ReadSequence(reads, i)), OtherLine("+"),
           OtherLine(IF reads[i].at THEN "@" ELSE "quality")>>
         \o FastqLines(reads, i + 1)

\* the lines the reads file of a call has
ReadsLines(in) ==
    IF in.type \in {"fasta", "fasta_gzip"} THEN FastaLines(in.reads, 1)
    ELSE IF in.type \in {"fastq", "fastq_gzip"} THEN FastqLines(in.reads, 1)
    ELSE <<>>

TailRecord(name, s) == [name |-> name, seq |-> s]

\* lines 125-136, 142-153, 164-175: the prints for one read
PrintRead(st, w, span) ==
    LET long == StrLen(st.sequence) > TailThreshold
    IN  [st EXCEPT
           !.left = IF long /\ w.left
                    THEN Append(@, TailRecord(st.read_name, SliceLeft(st.sequence, span)))
                    ELSE @,
           !.right = IF long /\ w.right
                     THEN Append(@, TailRecord(st.read_name, SliceRight(st.sequence, span)))
                     ELSE @,
           !.full = IF w.full THEN Append(@, TailRecord(st.read_name, st.sequence)) ELSE @]

RECURSIVE FastaLoop(_, _, _, _, _)
\* lines 121-153: the loop over the lines, then the last read
FastaLoop(lines, i, st, w, span) ==
    IF i > Len(lines)
    THEN IF st.sequence # <<>> THEN PrintRead(st, w, span) ELSE st
    ELSE LET line == lines[i]
         IN  IF line.first = ">"
             THEN LET printed == IF st.sequence # <<>> THEN PrintRead(st, w, span) ELSE st
                  IN  FastaLoop(lines, i + 1,
                                [printed EXCEPT !.read_name = line.name, !.sequence = <<>>],
                                w, span)
             ELSE FastaLoop(lines, i + 1, [st EXCEPT !.sequence = @ \o line.seq], w, span)

RECURSIVE FastqLoop(_, _, _, _, _)
\* lines 156-175: a line that starts with '@' names a read, the line after
\* it is its sequence
FastqLoop(lines, i, st, w, span) ==
    IF i > Len(lines) THEN st
    ELSE LET line == lines[i]
         IN  IF line.first = "@"
             THEN FastqLoop(lines, i + 1,
                            [st EXCEPT !.read_name = line.name, !.next = TRUE], w, span)
             ELSE IF st.next
             THEN FastqLoop(lines, i + 1,
                            PrintRead([st EXCEPT !.next = FALSE, !.sequence = line.seq],
                                      w, span),
                            w, span)
             ELSE FastqLoop(lines, i + 1, st, w, span)

AbsentFile == [exists |-> FALSE, recs |-> <<>>]

NewFile(recs) == [exists |-> TRUE, recs |-> recs]

\* a file that was in the working directory before, with some content
OldFile == NewFile(<<TailRecord(0, <<>>)>>)

\* faulty variant: every output is opened for writing
WriteFlags_Always(dir, type) ==
    [left |-> TRUE, right |-> TRUE, full |-> type \in {"fasta_gzip", "fastq_gzip"}]

\* lines 88-112: write_left, write_right, write_full
WriteFlags(dir, type) ==
    [left |-> ~dir.left.exists,
     right |-> ~dir.right.exists,
     full |-> type \in {"fasta_gzip", "fastq_gzip"} /\ ~dir.full.exists]

\* the result of a call: how it ended, the working directory it found and
\* the one it left, the outputs it opened for writing and whether it opened
\* the reads file
CallResult(status, before, after, w, read) ==
    [status |-> status, before |-> before, after |-> after, read |-> read,
     wrote |-> {f \in {"left", "right", "full"} : w[f]}]

\* create_tail_files(working_dir, reads_path, reads_type, span), lines 80-186.
\* open(.., 'w') leaves an empty file.  gzip.open(.., "rb") yields bytes, and
\* bytes.startswith(str) raises TypeError at the first line.
create_tail_files(dir, in) ==
    IF ~in.wd
    THEN CallResult("SystemExit", dir, dir,
                    [left |-> FALSE, right |-> FALSE, full |-> FALSE], FALSE)
    ELSE LET w == WriteFlags(dir, in.type)
             opened == [f \in {"left", "right", "full"} |->
                           IF w[f] THEN NewFile(<<>>) ELSE dir[f]]
             lines == ReadsLines(in)
             st0 == [sequence |-> <<>>, read_name |-> 0, next |-> FALSE,
                     left |-> <<>>, right |-> <<>>, full |-> <<>>]
             written(st) == [f \in {"left", "right", "full"} |->
                                IF w[f] THEN NewFile(st[f]) ELSE dir[f]]
         IN  IF ~(w.left \/ w.right \/ w.full)
             THEN CallResult("ok", dir, dir, w, FALSE)
             ELSE IF in.type \in {"fasta_gzip", "fastq_gzip"}
             THEN IF lines = <<>> THEN CallResult("ok", dir, opened, w, TRUE)
                  ELSE CallResult("TypeError", dir, opened, w, TRUE)
             ELSE IF in.type = "fasta"
             THEN CallResult("ok", dir, written(FastaLoop(lines, 1, st0, w, in.span)), w, TRUE)
             ELSE IF in.type = "fastq"
             THEN CallResult("ok", dir, written(FastqLoop(lines, 1, st0, w, in.span)), w, TRUE)
             ELSE CallResult("ok", dir, opened, w, FALSE)

(***************************************************************************)
(* SpecTails: create_tail_files called on bounded inputs, then called      *)
(* again on what the first call left.                                      *)
(***************************************************************************)
TailInputs ==
    [type : {"fasta", "fastq", "fasta_gzip", "fastq_gzip", "list", "unknown"},
     span : Spans, wd : BOOLEAN, reads : ReadFiles]

TailDirs == [left : {AbsentFile, OldFile}, right : {AbsentFile, OldFile},
             full : {AbsentFile, OldFile}]

InitTails ==
    /\ t_pc = "input"
    /\ t_in \in TailInputs
    /\ t_dir \in TailDirs
    /\ ~t_in.wd => t_dir = [left |-> AbsentFile, right |-> AbsentFile, full |-> AbsentFile]
    /\ t_call = <<>>
    /\ IdleFusion
    /\ IdleMain
    /\ IdleAlign
    /\ IdleParams

\* one call of create_tail_files on the working directory as it is
CallCreateTailFiles ==
    /\ t_pc \in {"input", "called"}
    /\ t_call' = Append(t_call, create_tail_files(t_dir, t_in))
    /\ t_dir' = t_call'[Len(t_call')].after
    /\ t_pc' = IF t_pc = "input" THEN "called" ELSE "called_twice"
    /\ UNCHANGED <<t_in, fvars, mvars, avars, pvars>>

NextTails == CallCreateTailFiles

SpecTails == InitTails /\ [][NextTails]_vars

(***************************************************************************)
(* SpecAlign: run_tail_alignments, lines 189-257, statement by statement,  *)
(* with the external processes it starts.  A process is the pair of its    *)
(* read set and its stage; it runs from its Popen until it exits, whether  *)
(* or not anything waits for it.                                           *)
(***************************************************************************)
Stages == {"ngmlr", "view", "sort", "index"}

Process(set, stage) == <<set, stage>>

\* the artifact a process belongs to: the three chained stages build the
\* sorted alignment, the indexer builds its index
ArtifactOf(p) == IF p[2] = "index" THEN AlnIndex(p[1]) ELSE Aln(p[1])

\* the stages run_tail_alignments waits for: sort.wait() and call()
Waited == {"sort", "index"}

\* lines 209, 226, 246 (sort.wait()) and 214, 231, 252 (call): the wait
\* returns when the process has exited
Terminated_Early(set, stage) == TRUE

Terminated(set, stage) == Process(set, stage) \notin a_procs

\* the statement after a Popen of the stage
AfterPopen(stage) ==
    IF stage = "ngmlr" THEN "popen_view"
    ELSE IF stage = "view" THEN "popen_sort"
    ELSE IF stage = "sort" THEN "wait_sort" ELSE "wait_index"

StageAt(at) ==
    IF at = "popen_ngmlr" THEN "ngmlr"
    ELSE IF at = "popen_view" THEN "view"
    ELSE IF at \in {"popen_sort", "wait_sort"} THEN "sort" ELSE "index"

TestEvent(file, exists) == [kind |-> "test", file |-> file, exists |-> exists]

\* a start, with the waited-for processes that were running at that moment
StartEvent(set, stage, procs) ==
    [kind |-> "start", set |-> set, stage |-> stage,
     waited |-> {p \in procs : p[2] \in Waited}]

ReturnEvent(set, stage) == [kind |-> "returned", set |-> set, stage |-> stage]

InitAlign ==
    /\ a_pc = "test_aln"
    /\ a_set = "left"
    /\ a_fs \in [Artifacts -> {"absent", "complete"}]
    /\ a_procs = {}
    /\ a_log = <<>>
    /\ IdleFusion
    /\ IdleMain
    /\ IdleTails
    /\ IdleParams

\* lines 202, 219, 238: if not os.path.exists(<set>_aln)
TestAlignment ==
    /\ a_pc = "test_aln"
    /\ a_log' = Append(a_log, TestEvent(Aln(a_set), a_fs[Aln(a_set)] # "absent"))
    /\ a_pc' = IF a_fs[Aln(a_set)] = "absent" THEN "popen_ngmlr" ELSE "test_index"
    /\ UNCHANGED <<a_set, a_fs, a_procs, fvars, mvars, tvars, pvars>>

\* lines 203-208, 220-225, 239-245 and the Popen inside call(): one process
\* is started; the function goes on without waiting
PopenProcess ==
    /\ a_pc \in {"popen_ngmlr", "popen_view", "popen_sort", "popen_index"}
    /\ a_procs' = a_procs \cup {Process(a_set, StageAt(a_pc))}
    /\ a_log' = Append(a_log, StartEvent(a_set, StageAt(a_pc), a_procs))
    /\ a_pc' = AfterPopen(StageAt(a_pc))
    /\ UNCHANGED <<a_set, a_fs, fvars, mvars, tvars, pvars>>

\* Popen raises (the program is not installed): the exception leaves
\* run_tail_alignments; processes already started keep running
PopenRaises ==
    /\ a_pc \in {"popen_ngmlr", "popen_view", "popen_sort", "popen_index"}
    /\ a_pc' = "raised"
    /\ UNCHANGED <<a_set, a_fs, a_procs, a_log, fvars, mvars, tvars, pvars>>

\* a running process exits, at any moment and with any exit status; the
\* sorter leaves the sorted alignment, the indexer the index
ProcessExit ==
    \E p \in a_procs, code \in ExitCodes, left \in {"absent", "partial"} :
        /\ a_procs' = a_procs \ {p}
        /\ a_fs' = IF p[2] = "sort"
                   THEN [a_fs EXCEPT ![Aln(p[1])] = IF code = 0 THEN "complete" ELSE left]
                   ELSE IF p[2] = "index" /\ code = 0 /\ a_fs[Aln(p[1])] # "absent"
                   THEN [a_fs EXCEPT ![AlnIndex(p[1])] = "complete"]
                   ELSE a_fs
        /\ UNCHANGED <<a_pc, a_set, a_log, fvars, mvars, tvars, pvars>>

\* lines 209, 226, 246: sort.wait() returns; the exit status is dropped
SortWaitReturns ==
    /\ a_pc = "wait_sort"
    /\ Terminated(a_set, "sort")
    /\ a_log' = Append(a_log, ReturnEvent(a_set, "sort"))
    /\ a_pc' = "test_index"
    /\ UNCHANGED <<a_set, a_fs, a_procs, fvars, mvars, tvars, pvars>>

\* lines 213, 230, 251: if not os.path.exists(<set>_aln_index)
TestIndex ==
    /\ a_pc = "test_index"
    /\ a_log' = Append(a_log, TestEvent(AlnIndex(a_set), a_fs[AlnIndex(a_set)] # "absent"))
    /\ IF a_fs[AlnIndex(a_set)] = "absent"
       THEN a_pc' = "popen_index" /\ a_set' = a_set
       ELSE /\ a_set' = NextSet(a_set)
            /\ a_pc' = IF a_set' = "-" THEN "returned" ELSE "test_aln"
    /\ UNCHANGED <<a_fs, a_procs, fvars, mvars, tvars, pvars>>

\* lines 214-215, 231-232, 252-253: call() returns when the indexer has
\* exited; the function goes on to the next read set or returns
CallReturns ==
    /\ a_pc = "wait_index"
    /\ Terminated(a_set, "index")
    /\ a_log' = Append(a_log, ReturnEvent(a_set, "index"))
    /\ a_set' = NextSet(a_set)
    /\ a_pc' = IF a_set' = "-" THEN "returned" ELSE "test_aln"
    /\ UNCHANGED <<a_fs, a_procs, fvars, mvars, tvars, pvars>>

NextAlign ==
    \/ TestAlignment
    \/ PopenProcess
    \/ PopenRaises
    \/ ProcessExit
    \/ SortWaitReturns
    \/ TestIndex
    \/ CallReturns

SpecAlign == InitAlign /\ [][NextAlign]_vars

(***************************************************************************)
(* SpecParams: callPacParams (src/callPacParams.py).  A parameter value is *)
(* a number n / d kept as the pair (n, d), or None; an options object is a *)
(* function from the names of the attributes it has to their values.       *)
(***************************************************************************)
MaxPresent == 2     \* scalar parameters an options object overrides at most

Num(n) == <<n, 1>>

Frac(n, d) == <<n, d>>

None == <<0, 0>>

\* __init__, lines 2-33: the record after construction
Defaults ==
    [tail_span |-> Num(1000),
     tail_min_mapq |-> Num(30),
     tail_min_deviation |-> Frac(-2, 100),
     tail_max_deviation |-> Frac(1, 10),
     count_win_size |-> Num(100),
     count_k |-> Num(13),
     count_band |-> Frac(5, 10),
     stretch_threshold |-> Num(4),
     stretch_tolerance |-> Num(2),
     stretch_min_length |-> Num(3),
     path_constant_gap_cost |-> Num(0),
     path_linear_gap_cost |-> Frac(1, 100),
     path_convex_gap_cost |-> Num(0),
     path_root_gap_cost |-> Num(1),
     path_tolerance |-> Num(2),
     align_costs |-> <<Num(3), Num(-12), Num(-12)>>,
     min_length |-> Num(50),
     max_segment_gap_tolerance |-> Num(10),
     max_deletion_size |-> Num(10000),
     segment_overlap_tolerance |-> Num(5)]

\* the try blocks of set_with_options, lines 38-126, in the order of the code
Blocks ==
    <<"tail_span", "tail_min_mapq", "tail_min_deviation", "tail_max_deviation",
      "count_win_size", "count_k", "count_band",
      "stretch_threshold", "stretch_tolerance", "stretch_min_length",
      "path_constant_gap_cost", "path_linear_gap_cost", "path_convex_gap_cost",
      "path_root_gap_cost", "path_tolerance",
      "align_costs",
      "min_length", "max_segment_gap_tolerance", "max_deletion_size",
      "segment_overlap_tolerance">>

\* the parameters that are set from the attribute of the same name
Scalars == {Blocks[i] : i \in 1 .. Len(Blocks)} \ {"align_costs"}

\* the attributes align_costs is set from, in the order line 107 reads them
AlignAttrs == <<"align_costs_match", "align_costs_mismatch", "align_costs_gap">>

\* options.<name> raises AttributeError when the attribute is missing
HasAttr(o, name) == name \in DOMAIN o

\* one try block of a scalar parameter, e.g. lines 38-41
SetScalar(params, o, name) ==
    IF HasAttr(o, name) THEN [params EXCEPT ![name] = o[name]] ELSE params

\* faulty variant: each cost that is present replaces its component
SetAlignCosts_Each(params, o) ==
    [params EXCEPT !.align_costs =
        [i \in 1 .. 3 |-> IF HasAttr(o, AlignAttrs[i]) THEN o[AlignAttrs[i]] ELSE @[i]]]

\* lines 106-109: the tuple is built from the three attributes inside one
\* try; a missing one raises before the assignment
SetAlignCosts(params, o) ==
    IF \A i \in 1 .. 3 : HasAttr(o, AlignAttrs[i])
    THEN [params EXCEPT !.align_costs = [i \in 1 .. 3 |-> o[AlignAttrs[i]]]]
    ELSE params

\* the try blocks from the i-th on
RECURSIVE RunBlocks(_, _, _)
RunBlocks(params, o, i) ==
    IF i > Len(Blocks) THEN params
    ELSE RunBlocks(IF Blocks[i] = "align_costs" THEN SetAlignCosts(params, o)
                   ELSE SetScalar(params, o, Blocks[i]),
                   o, i + 1)

\* set_with_options, lines 36-126
set_with_options(params, o) == RunBlocks(params, o, 1)

\* the sets of at most n scalar parameters
RECURSIVE ScalarsUpTo(_)
ScalarsUpTo(n) ==
    IF n = 0 THEN {{}}
    ELSE LET fewer == ScalarsUpTo(n - 1)
         IN  fewer \cup {S \cup {a} : S \in fewer, a \in Scalars}

\* values an attribute of the options object can have
OptionValues == {Num(7), None}

\* the attribute sets of the options objects: some scalar parameters, any of
\* the three costs, and possibly an attribute named align_costs, which
\* set_with_options never reads
AttributeSets ==
    {S \cup C \cup U : S \in ScalarsUpTo(MaxPresent),
                       C \in SUBSET {AlignAttrs[i] : i \in 1 .. 3},
                       U \in SUBSET {"align_costs"}}

InitParams ==
    /\ p_pc = "input"
    /\ \E A \in AttributeSets :
          /\ p_options \in [A -> OptionValues]
          /\ HasAttr(p_options, "align_costs") => p_options["align_costs"] = None
    /\ p_params = Defaults
    /\ p_hist = <<Defaults>>
    /\ IdleFusion
    /\ IdleMain
    /\ IdleTails
    /\ IdleAlign

\* parameters.set_with_options(options), for the first or the second time
SetWithOptions ==
    /\ p_pc \in {"input", "applied"}
    /\ p_params' = set_with_options(p_params, p_options)
    /\ p_hist' = Append(p_hist, p_params')
    /\ p_pc' = IF p_pc = "input" THEN "applied" ELSE "applied_twice"
    /\ UNCHANGED <<p_options, fvars, mvars, tvars, avars>>

NextParams == SetWithOptions

SpecParams == InitParams /\ [][NextParams]_vars

(***************************************************************************)
(* Claims about the score computation, checked under SpecFusion.           *)
(***************************************************************************)
Scored == f_pc # "input"

ZeroEvidence(in) == in.tk + in.re + in.rc = 0

IsSentinel(o) == o.status = "ok" /\ o.score.kind = "int" /\ o.score.val = -1

IsIntZero(o) == o.status = "ok" /\ o.score.kind = "int" /\ o.score.val = 0

\* the E of the score formula: read_evidences, or the pre-confirmation score
\* of an inversion
EvidenceTerm(in) == IF in.type = "inversion" THEN in.pre ELSE in.re

\* C3: the new score is -1 exactly when total_kmer_confirmations +
\* read_evidences + read_contradictions = 0, for every type, every
\* successful_kmer_confirmations and every pre-confirmation score.
C3_ZeroEvidenceSentinel ==
    Scored => (ZeroEvidence(f_in) <=> IsSentinel(f_out))

\* C3 witness: an inversion with pre-confirmation score 0, confirmed k-mers
\* and no informative evidence has been scored -1.
C3_Witness ==
    /\ Scored
    /\ f_in.type = "inversion" /\ f_in.pre = 0 /\ f_in.sk > 0
    /\ ZeroEvidence(f_in)
    /\ IsSentinel(f_out)

\* C4: an inversion with pre-confirmation score 0 and some informative
\* evidence gets the integer score 0 whatever the four counts are, and no
\* deletion or insertion is given the score of that branch.
C4_InversionZero ==
    Scored =>
        /\ (f_in.type = "inversion" /\ f_in.pre = 0 /\ ~ZeroEvidence(f_in))
              => IsIntZero(f_out)
        /\ IsIntZero(f_out) => (f_in.type = "inversion" /\ f_in.pre = 0)

\* C4 witness: an inversion with pre-confirmation score 0, confirming k-mers
\* and read evidence has been scored 0.
C4_Witness ==
    /\ Scored
    /\ f_in.type = "inversion"
    /\ f_in.pre = 0 /\ f_in.sk > 0 /\ f_in.tk > 0 /\ f_in.re > 0
    /\ IsIntZero(f_out)

\* C5: outside the zero-evidence and inversion-zero branches the new score
\* is 5 * (sqrt(num_confirmed) + sqrt(rate_confirmed)) with num_confirmed =
\* min(100, sk + E) and rate_confirmed = (E + sk) * 100 / (tk + E + rc), E
\* being read_evidences for deletions and insertions and the
\* pre-confirmation score for inversions; the spec's example (deletion, 10,
\* 10, 5, 5) has num_confirmed 15 and rate_confirmed 75.  Where the
\* expression has no value (zero denominator, negative radicand) no score is
\* returned.
C5_ScoreFormula ==
    (Scored /\ ~ZeroEvidence(f_in) /\ ~(f_in.type = "inversion" /\ f_in.pre = 0)) =>
        LET E == EvidenceTerm(f_in)
            n == IF f_in.sk + E <= 100 THEN f_in.sk + E ELSE 100
            p == (E + f_in.sk) * 100
            q == f_in.tk + E + f_in.rc
        IN  /\ f_out.status = "ok" <=> (q # 0 /\ n >= 0 /\ p * q >= 0)
            /\ f_out.status = "ok" =>
                  /\ f_out.score.kind = "fused"
                  /\ f_out.score.num = n
                  /\ f_out.score.rnum * q = p * f_out.score.rden
            /\ (f_in.type = "deletion" /\ f_in.sk = 10 /\ f_in.tk = 10
                  /\ f_in.re = 5 /\ f_in.rc = 5) =>
                  /\ f_out.score.num = 15
                  /\ f_out.score.rnum = 75 * f_out.score.rden

\* C5 witness: the spec's example has been scored, with 15 and 75.
C5_Witness ==
    /\ f_pc = "scored"
    /\ f_in.type = "deletion" /\ f_in.sk = 10 /\ f_in.tk = 10
    /\ f_in.re = 5 /\ f_in.rc = 5
    /\ f_out.status = "ok" /\ f_out.score.num = 15
    /\ f_out.score.rnum = 75 * f_out.score.rden

WaveIndex(t) == IF t = "deletion" THEN 1 ELSE IF t = "insertion" THEN 2 ELSE 3

\* the partition loop of type t has run
Partitioned(t) ==
    \/ pc \in {"write", "dump", "done"}
    \/ pc \in {"dispatch", "pool"} /\ WaveIndex(sub) >= WaveIndex(t)
    \/ pc = "partition" /\ WaveIndex(sub) > WaveIndex(t)

\* positions of the cluster with identity id in the to-confirm lists of type t
InDict(t, id) ==
    {<<k, i>> \in (DOMAIN to_confirm[t]) \X (1 .. MaxClusters + 1) :
        i <= Len(to_confirm[t][k]) /\ to_confirm[t][k][i].id = id}

\* positions of the cluster with identity id in the bypassed list of type t
InBypassed(t, id) ==
    {i \in 1 .. Len(not_to_confirm[t]) : not_to_confirm[t][i].id = id}

RECURSIVE SumLen(_, _)
SumLen(dict, keys) ==
    IF keys = {} THEN 0
    ELSE LET k == CHOOSE x \in keys : TRUE
         IN  Len(dict[k]) + SumLen(dict, keys \ {k})

\* C1: after the partition loop of a type every cluster of the input
\* collection is in exactly one place of the two groups (one contig list or
\* the bypassed list), and the sizes of the groups add up to the size of the
\* input collection.
C1_PartitionTotal ==
    \A t \in SVTypes :
        Partitioned(t) =>
            /\ \A id \in 1 .. Len(bundle[t]) :
                  Cardinality(InDict(t, id)) + Cardinality(InBypassed(t, id)) = 1
            /\ SumLen(to_confirm[t], DOMAIN to_confirm[t]) + Len(not_to_confirm[t])
                  = Len(bundle[t])

\* C1 witness: the inversions have been partitioned into a non-empty
\* to-confirm group and a non-empty bypassed group.
C1_Witness ==
    /\ pc = "dispatch" /\ sub = "inversion"
    /\ DOMAIN to_confirm["inversion"] # {}
    /\ not_to_confirm["inversion"] # <<>>

\* the rule of the claim, on a cluster as loaded
MeetsRule(t, c) ==
    /\ c.score.val >= options.confirm_min[t]
    /\ (t = "inversion") => (c.end - c.start <= max_sv_size)

Zeroed(c) == [c EXCEPT !.score = IntScore(0)]

\* C2: a cluster is in the to-confirm list of its own contig iff its score
\* is >= the threshold of its type and, for inversions, end - start <=
\* max_sv_size; any other cluster is bypassed with score 0 and all else
\* unchanged, is in no task of the pool, and is in the final collection, the
\* interval file and the dumped bundle with score exactly 0.
C2_BypassRule ==
    \A t \in SVTypes :
        /\ Partitioned(t) =>
              \A id \in 1 .. Len(bundle[t]) :
                  LET c == bundle[t][id]
                  IN  IF MeetsRule(t, c)
                      THEN /\ InDict(t, id) # {}
                           /\ \A x \in InDict(t, id) :
                                 x[1] = c.contig /\ to_confirm[t][x[1]][x[2]] = c
                      ELSE /\ InBypassed(t, id) # {}
                           /\ \A i \in InBypassed(t, id) : not_to_confirm[t][i] = Zeroed(c)
        /\ (pc = "pool" /\ sub = t) =>
              \A i \in 1 .. Len(tasks) :
                  \A j \in 1 .. Len(tasks[i].clusters) :
                      MeetsRule(t, bundle[t][tasks[i].clusters[j].id])
        /\ pc \in {"dump", "done"} =>
              \A id \in 1 .. Len(bundle[t]) :
                  LET c == bundle[t][id]
                  IN  ~MeetsRule(t, c) =>
                          \E i \in 1 .. Len(clusters[t]) :
                              /\ clusters[t][i] = Zeroed(c)
                              /\ bed[t][i] = [contig |-> c.contig, start |-> c.start,
                                              end |-> c.end, score |-> IntScore(0)]
                              /\ pc = "done" => obj_out[t][i] = Zeroed(c)

\* C2 witness: the run has ended with a deletion that was loaded with a
\* positive score below confirm_del_min and was written with score 0.
C2_Witness ==
    /\ pc = "done"
    /\ \E id \in 1 .. Len(bundle["deletion"]) :
         /\ bundle["deletion"][id].score.val > 0
         /\ bundle["deletion"][id].score.val < options.confirm_min["deletion"]
         /\ \E i \in 1 .. Len(bed["deletion"]) :
              /\ obj_out["deletion"][i] = Zeroed(bundle["deletion"][id])
              /\ bed["deletion"][i].score = IntScore(0)

\* C6 as claimed: no evaluation of rate_confirmed divides by zero, for any
\* cluster that main() dispatches.
C6_Claimed ==
    \A i \in 1 .. Len(tasks) : tasks[i].error # "ZeroDivisionError"

\* C9 as claimed: once guess_file_type has returned "unknown" no tail file
\* is created, no external process launched, no wave dispatched and nothing
\* written.
C9_Claimed ==
    reads_type = "unknown" => events = {}

\* C10 as claimed: after a non-zero exit of an external process of
\* run_tail_alignments no further external process is launched, no wave is
\* dispatched and no interval file or bundle is written.
C10_Claimed ==
    after_failure = {}


(***************************************************************************)
(* Claims about create_tail_files, checked under SpecTails.                *)
(***************************************************************************)
TailNames == {"left", "right", "full"}

\* C11: an output of create_tail_files that exists when the function is
\* called is not opened for writing and has the same content afterwards; a
\* second call after a completed first call writes nothing, leaves the three
\* files as they were and does not open the reads file.
C11_TailIdempotent ==
    /\ \A k \in 1 .. Len(t_call) :
          \A f \in TailNames :
              t_call[k].before[f].exists =>
                  /\ f \notin t_call[k].wrote
                  /\ t_call[k].after[f] = t_call[k].before[f]
    /\ (Len(t_call) = 2 /\ t_call[1].status = "ok") =>
          /\ t_call[2].wrote = {}
          /\ t_call[2].after = t_call[1].after
          /\ ~t_call[2].read

\* C11 witness: a first call wrote both tail files, with records, from a
\* FASTA file and a second call has been made.
C11_Witness ==
    /\ Len(t_call) = 2
    /\ t_in.type = "fasta"
    /\ t_call[1].status = "ok"
    /\ t_call[1].wrote = {"left", "right"}
    /\ t_call[1].after.left.recs # <<>>
    /\ t_call[2].status = "ok"
    /\ t_call[2].wrote = {}
    /\ t_dir = t_call[1].after


(***************************************************************************)
(* Claims about reruns and the alignment artifacts, checked under          *)
(* SpecRerun.                                                              *)
(***************************************************************************)
\* main() has reached the confirmation stage
Confirming == pc \in {"partition", "dispatch", "pool", "write", "dump", "done"}

\* the content an uninterrupted run leaves in a file: tail files stay empty
\* for a format that is not parsed
Uninterrupted(f) ==
    IF f \in {"left_fa", "right_fa", "full_fa"} /\ reads_type \in {"list", "unknown"}
    THEN "empty" ELSE "complete"

\* C12 as claimed: when a rerun reaches the confirmation stage every tail
\* file, sorted alignment and index in the working directory has the content
\* an uninterrupted run would have produced.
C12_Claimed ==
    (run > 1 /\ Confirming) =>
        \A f \in Files : fs[f] \in {"absent", Uninterrupted(f)}


\* C13: in run_tail_alignments the build step of each of the six artifacts
\* is executed iff the artifact was absent when its own test was made,
\* whatever files the working directory held, and an artifact that was
\* present then is as it was.
C13_IndependentSkip ==
    \A a \in Artifacts \cap DOMAIN found :
        /\ a \in built <=> found[a] = "absent"
        /\ found[a] # "absent" => fs[a] = found[a]

\* C13 witness: all six tests have been made; the left index and the full
\* alignment were built, the other four artifacts were present and skipped.
C13_Witness ==
    /\ pc = "open"
    /\ built \cap Artifacts = {"left_aln_index", "full_aln"}
    /\ \A a \in Artifacts \ {"left_aln_index", "full_aln"} :
          found[a] = "complete" /\ fs[a] = "complete"
    /\ fs["full_aln"] = "complete"


(***************************************************************************)
(* Further claims about main(), checked under Spec.                        *)
(***************************************************************************)
\* positions of the cluster with identity id in a collection
Positions(coll, id) == {i \in 1 .. Len(coll) : coll[i].id = id}

\* C14: the dumped bundle has the tandem-duplication, insertion-from and
\* translocation collections as loaded, and each of its deletion, insertion
\* and inversion collections holds every cluster of the loaded collection
\* exactly once and nothing else, equal to the loaded cluster in all but the
\* score.
C14_BundlePreserved ==
    pc = "done" =>
        /\ DOMAIN obj_out = AllTypes
        /\ \A t \in AllTypes \ SVTypes : obj_out[t] = bundle[t]
        /\ \A t \in SVTypes :
              /\ Len(obj_out[t]) = Len(bundle[t])
              /\ \A id \in 1 .. Len(bundle[t]) :
                    /\ Cardinality(Positions(obj_out[t], id)) = 1
                    /\ \A i \in Positions(obj_out[t], id) :
                          [obj_out[t][i] EXCEPT !.score = bundle[t][id].score]
                              = bundle[t][id]

\* C14 witness: a bundle of two deletions was dumped, the first bypassed and
\* now last, the second confirmed with a new score and now first.
C14_Witness ==
    /\ pc = "done"
    /\ Len(bundle["deletion"]) = 2
    /\ obj_out["deletion"][1].id = 2
    /\ obj_out["deletion"][1].score.kind = "fused"
    /\ obj_out["deletion"][2].id = 1
    /\ obj_out["deletion"][2].score = IntScore(0)
    /\ bundle["deletion"][1].score # IntScore(0)
    /\ obj_out["tandem_duplication"] = OneCluster


\* the steps of the confirmation stage in the order of the claim
WaveSchedule ==
    <<<<"partition", "deletion">>, <<"dispatch", "deletion">>, <<"merge", "deletion">>,
      <<"partition", "insertion">>, <<"dispatch", "insertion">>, <<"merge", "insertion">>,
      <<"partition", "inversion">>, <<"dispatch", "inversion">>, <<"merge", "inversion">>,
      <<"intervals", "-">>, <<"bundle", "-">>>>

IsPrefix(s, t) == Len(s) <= Len(t) /\ \A i \in 1 .. Len(s) : s[i] = t[i]

Running == {i \in 1 .. Len(tasks) : tasks[i].status = "running"}

\* C15: partition, dispatch and merge happen for deletions, then insertions,
\* then inversions; a task is in flight only between the dispatch and the
\* merge of its own type, so all tasks in flight have one type; and when the
\* partition or dispatch of the next type begins, every task of the type
\* before has returned and its results are merged.
C15_WaveOrder ==
    /\ IsPrefix(trace, WaveSchedule)
    /\ \A i \in 1 .. Len(tasks) : \A j \in 1 .. Len(tasks) : tasks[i].type = tasks[j].type
    /\ Running # {} =>
          /\ pc \in {"pool", "aborted"}
          /\ trace # <<>>
          /\ \A i \in Running : trace[Len(trace)] = <<"dispatch", tasks[i].type>>
    /\ (pc \in {"partition", "dispatch"} /\ sub # "deletion") =>
          /\ \A i \in 1 .. Len(tasks) :
                tasks[i].status = "done" /\ NextType(tasks[i].type) = sub
          /\ \E t \in SVTypes :
                /\ NextType(t) = sub
                /\ clusters[t] = Chain([i \in 1 .. Len(tasks) |-> tasks[i].clusters])
                                    \o not_to_confirm[t]

\* C15 witness: the inversions are in flight after the deletions and the
\* insertions, each with a task, were dispatched and merged.
C15_Witness ==
    /\ pc = "pool" /\ sub = "inversion"
    /\ Running # {}
    /\ Len(trace) = 8
    /\ to_confirm["deletion"] # <<>>
    /\ to_confirm["insertion"] # <<>>


\* C16: when the working directory does not exist the run ends before
\* create_tail_files tests, opens or creates a tail file or opens the reads
\* file, and before any external process, wave or output: no file appears,
\* nothing is launched, dispatched or written.
C16_MissingDirFatal ==
    ~wd_exists =>
        /\ pc \in {"logging", "aborted"}
        /\ \A f \in Files : fs[f] = "absent"
        /\ found = <<>> /\ built = {} /\ ~reads_opened
        /\ events = {} /\ trace = <<>>
        /\ \A t \in SVTypes : bed[t] = <<>>
        /\ obj_out = <<>>

\* C16 witness: a run on a missing working directory has ended with an
\* error.
C16_Witness ==
    /\ ~wd_exists
    /\ pc = "aborted"
    /\ error # "-"


\* identities of the loaded clusters of type t that meet the rule of C2 and
\* lie on contig k
ToConfirmOn(t, k) ==
    {id \in 1 .. Len(bundle[t]) : MeetsRule(t, bundle[t][id]) /\ bundle[t][id].contig = k}

\* the contigs with at least one cluster to confirm
ContigsToConfirm(t) == {k \in Contigs : ToConfirmOn(t, k) # {}}

\* C17: the tasks of a wave are one per contig that has a cluster to
\* confirm, in ascending order of contig; each task has at least one cluster,
\* all its clusters are on the contig of its first cluster, they are exactly
\* the clusters to confirm on that contig, and they are in input order.
C17_TaskConstruction ==
    /\ pc = "pool" => Len(tasks) = Cardinality(ContigsToConfirm(sub))
    /\ \A i \in 1 .. Len(tasks) :
          LET cs == tasks[i].clusters
              t == tasks[i].type
              k == cs[1].contig
          IN  /\ Len(cs) >= 1
              /\ \A j \in 1 .. Len(cs) : cs[j].contig = k
              /\ {cs[j].id : j \in 1 .. Len(cs)} = ToConfirmOn(t, k)
              /\ \A j \in 1 .. Len(cs) - 1 : cs[j].id < cs[j + 1].id
              /\ \A h \in 1 .. Len(tasks) :
                    i < h => k < tasks[h].clusters[1].contig

\* C17 witness: two tasks are in the pool, the first for the contig that
\* comes first in sorted order, whose cluster came second in the input.
C17_Witness ==
    /\ pc = "pool"
    /\ Len(tasks) = 2
    /\ tasks[1].clusters[1].contig = 1 /\ tasks[1].clusters[1].id = 2
    /\ tasks[2].clusters[1].contig = 2 /\ tasks[2].clusters[1].id = 1


\* the cluster a task was given at position j, as loaded
Given(t, j) == bundle[t.type][t.clusters[j].id]

\* the score line 303 assigns to that cluster for the counts its extractors
\* returned
ScoreFor(t, j) ==
    ScoreFusion(t.type, Given(t, j).score.val,
                t.seen[j][1], t.seen[j][2], t.seen[j][3], t.seen[j][4])

\* the list a task returns when it runs with nothing else running
RunAlone(t) ==
    [j \in 1 .. Len(t.clusters) |-> [Given(t, j) EXCEPT !.score = ScoreFor(t, j).score]]

\* the type whose results were merged last
LastMerged == {t \in SVTypes : trace # <<>> /\ trace[Len(trace)] = <<"merge", t>>}

\* C18: no cluster is in two tasks of a wave; at every point of every
\* interleaving each task has changed only its own clusters, the ones it has
\* evaluated carrying the score computed from their own counts and the
\* others as given; and the merged collection is the task results in contig
\* order followed by the bypassed clusters, each as if the tasks had run one
\* after another.
C18_TaskIsolation ==
    /\ \A i \in 1 .. Len(tasks) : \A h \in 1 .. Len(tasks) :
          i # h => {tasks[i].clusters[j].id : j \in 1 .. Len(tasks[i].clusters)}
                      \cap {tasks[h].clusters[j].id : j \in 1 .. Len(tasks[h].clusters)}
                   = {}
    /\ \A i \in 1 .. Len(tasks) :
          LET t == tasks[i]
          IN  /\ t.next - 1 <= Len(t.seen)
              /\ \A j \in 1 .. Len(t.clusters) :
                    IF j < t.next
                    THEN /\ ScoreFor(t, j).status = "ok"
                         /\ t.clusters[j] = [Given(t, j) EXCEPT !.score = ScoreFor(t, j).score]
                    ELSE t.clusters[j] = Given(t, j)
    /\ \A t \in LastMerged :
          clusters[t] = Chain([i \in 1 .. Len(tasks) |-> RunAlone(tasks[i])])
                            \o not_to_confirm[t]

\* C18 witness: of two tasks in the pool the second has returned, with a
\* computed score, while the first has not evaluated its cluster yet.
C18_Witness ==
    /\ pc = "pool"
    /\ Len(tasks) = 2
    /\ tasks[1].status = "running" /\ tasks[1].next = 1
    /\ tasks[2].status = "done"
    /\ tasks[2].clusters[1].score.kind = "fused"


Raisers == {i \in 1 .. Len(tasks) : tasks[i].status = "raised"}

OutputWritten ==
    \/ events \cap {"interval_written", "bundle_written"} # {}
    \/ \E t \in SVTypes : bed[t] # <<>>
    \/ obj_out # <<>>

\* C19: an interval file or the bundle is written only after the tasks of
\* all three waves have returned and been merged; once a task has raised,
\* the run stays in the pool call or has aborted, and no interval file and no
\* bundle is written; the bundle is written once, as the last step of the
\* run, with all six collections.
C19_AllOrNothing ==
    /\ OutputWritten =>
          /\ Len(trace) >= 10
          /\ IsPrefix(trace, WaveSchedule)
          /\ Raisers = {} /\ Running = {}
    /\ Raisers # {} =>
          /\ pc \in {"pool", "aborted"}
          /\ ~OutputWritten
    /\ (error # "-" /\ Raisers # {}) => (pc = "aborted" /\ \E i \in Raisers : error = tasks[i].error)
    /\ "bundle_written" \in events =>
          /\ pc = "done"
          /\ trace = WaveSchedule
          /\ DOMAIN obj_out = AllTypes
          /\ obj_out = clusters
    /\ pc = "done" => "bundle_written" \in events

\* C19 witness: a task of the third wave raised after two waves were merged,
\* the run has aborted with its exception and nothing was written.
C19_Witness ==
    /\ pc = "aborted"
    /\ Len(trace) = 8
    /\ Raisers # {}
    /\ error = "ZeroDivisionError"
    /\ ~OutputWritten


(***************************************************************************)
(* Tail selection, checked under SpecTails.                                *)
(***************************************************************************)
\* the reads of the file with more than 2000 bases, in file order
LongReads(reads) ==
    SelectSeq([i \in 1 .. Len(reads) |-> i],
              LAMBDA i : StrLen(ReadSequence(reads, i)) > TailThreshold)

\* one record per long read: its name and its first (side "left") or last
\* span bases
TailsOf(in, side) ==
    LET long == LongReads(in.reads)
    IN  [k \in 1 .. Len(long) |->
            LET s == ReadSequence(in.reads, long[k])
                n == StrLen(s)
            IN  TailRecord(long[k],
                           IF n <= in.span THEN s
                           ELSE IF side = "left" THEN Take(s, in.span)
                           ELSE Drop(s, n - in.span))]

\* one record per read, with its whole sequence
AllReads(in) == [i \in 1 .. Len(in.reads) |-> TailRecord(i, ReadSequence(in.reads, i))]

RecordNames(recs) == [k \in 1 .. Len(recs) |-> recs[k].name]

\* C20 as claimed: for a FASTA or FASTQ reads file, plain or compressed, a
\* call that writes the left (right) tail file leaves in it one record for
\* every read longer than 2000 bases, the last read included, with the
\* read's name and its first (last) S bases; a call that writes the
\* full-read file of a compressed input leaves every read in it; and two
\* tail files written by one call name the same reads in the same order.
C20_Claimed ==
    \A k \in 1 .. Len(t_call) :
        LET c == t_call[k]
        IN  (t_in.wd /\ t_in.type \in {"fasta", "fastq", "fasta_gzip", "fastq_gzip"}) =>
                /\ "left" \in c.wrote => c.after.left.recs = TailsOf(t_in, "left")
                /\ "right" \in c.wrote => c.after.right.recs = TailsOf(t_in, "right")
                /\ "full" \in c.wrote => c.after.full.recs = AllReads(t_in)
                /\ {"left", "right"} \subseteq c.wrote =>
                      RecordNames(c.after.left.recs) = RecordNames(c.after.right.recs)


(***************************************************************************)
(* Claims about run_tail_alignments, checked under SpecAlign.              *)
(***************************************************************************)
\* the files run_tail_alignments tests, in the order of the code
AlignOrder == SubSeq(BuildOrder, 4, 9)

BuildRank(file) == CHOOSE i \in 1..Len(BuildOrder) : BuildOrder[i] = file

\* the entries of the log of one kind, in order
RECURSIVE OfKind(_, _)
OfKind(log, kind) ==
    IF log = <<>> THEN <<>>
    ELSE IF log[1].kind = kind THEN <<log[1]>> \o OfKind(Tail(log), kind)
    ELSE OfKind(Tail(log), kind)

\* the file whose test comes last before position i of the log
RECURSIVE TestedBefore(_, _)
TestedBefore(log, i) ==
    IF i <= 1 THEN "-"
    ELSE IF log[i - 1].kind = "test" THEN log[i - 1].file
    ELSE TestedBefore(log, i - 1)

\* the sort stage of the read set is over at position i of the log: its
\* wait has returned, or its test found the sorted alignment
SortOver(log, i, set) ==
    \E j \in 1..(i - 1) :
        \/ log[j] = ReturnEvent(set, "sort")
        \/ log[j] = TestEvent(Aln(set), TRUE)

\* C21: run_tail_alignments handles the read sets in the order left, right,
\* full (the files it tests are, in order, a prefix of left_aln,
\* left_aln_index, right_aln, right_aln_index, full_aln, full_aln_index, and
\* every process is started for the file tested last); the indexer of a read
\* set is started only after that set's sort stage has terminated or was
\* skipped; and at no start of a process is a waited-for process of an
\* earlier artifact still running.
C21_BuildOrdering ==
    /\ LET tests == OfKind(a_log, "test")
       IN  /\ Len(tests) <= Len(AlignOrder)
           /\ \A i \in 1..Len(tests) : tests[i].file = AlignOrder[i]
    /\ \A i \in 1..Len(a_log) :
        a_log[i].kind = "start" =>
            LET e == a_log[i]
            IN  /\ TestedBefore(a_log, i) = ArtifactOf(Process(e.set, e.stage))
                /\ e.stage = "index" =>
                       /\ SortOver(a_log, i, e.set)
                       /\ Process(e.set, "sort") \notin e.waited
                /\ \A p \in e.waited :
                       BuildRank(ArtifactOf(p)) >= BuildRank(ArtifactOf(Process(e.set, e.stage)))
    /\ \A set \in {"left", "right", "full"} :
        Process(set, "index") \in a_procs => Process(set, "sort") \notin a_procs

\* all six artifacts were absent and have been built in turn: the indexer of
\* the full reads is running after eleven earlier starts, and an aligner
\* nobody waits for is still running
C21_Witness ==
    /\ a_pc = "wait_index"
    /\ a_set = "full"
    /\ Process("full", "index") \in a_procs
    /\ Len(OfKind(a_log, "start")) = 12
    /\ Len(OfKind(a_log, "returned")) = 5
    /\ Process("left", "ngmlr") \in a_procs


(***************************************************************************)
(* SpecScores: the score computation on bounded inputs, and main() from    *)
(* the loaded bundle to the written output.                                *)
(***************************************************************************)
InitScores == InitFusion \/ Init

NextScores == NextFusion \/ Next

SpecScores == InitScores /\ [][NextScores]_vars

(***************************************************************************)
(* Range of the scores, checked under SpecScores.                          *)
(***************************************************************************)
\* the score computation has run on f_in
Computed == f_pc \in {"scored", "rc_raised", "sk_raised"}

\* the evidence counts and the pre-confirmation score the claim is about
CountsInRange(in) ==
    /\ 0 <= in.sk /\ in.sk <= in.tk
    /\ in.re >= 0 /\ in.rc >= 0
    /\ in.pre >= 0

\* -1, or a number in [0, 100]; for a sum of roots, num_confirmed and
\* rate_confirmed are in [0, 100] as well
ScoreInRange(s) ==
    IF s.kind = "int" THEN s.val = -1 \/ (0 <= s.val /\ s.val <= 100)
    ELSE LET x == Triple(s)
         IN  /\ s.rden # 0
             /\ 0 <= x.n /\ x.n <= 100
             /\ 0 <= x.p /\ x.p <= 100 * x.q
             /\ ScoreLeq(IntScore(0), s)
             /\ ScoreLeq(s, FusedScore(100, 100, 1))

\* C22: for every SV type, when 0 <= successful_kmer <= total_kmer,
\* read_evidences >= 0, read_contradictions >= 0 and the pre-confirmation
\* score is >= 0, the computation returns, and what it returns is -1 or a
\* score in [0, 100] with num_confirmed and rate_confirmed in [0, 100]; and
\* every deletion, insertion and inversion cluster of the final collections,
\* of the interval files and of the dumped bundle has a score of -1 or in
\* [0, 100].
C22_ScoreRange ==
    /\ (Computed /\ CountsInRange(f_in)) =>
          /\ f_out.status = "ok"
          /\ ScoreInRange(f_out.score)
    /\ \A t \in SVTypes :
          /\ pc \in {"write", "dump", "done"} =>
                \A i \in 1 .. Len(clusters[t]) : ScoreInRange(clusters[t][i].score)
          /\ pc \in {"dump", "done"} =>
                \A i \in 1 .. Len(bed[t]) : ScoreInRange(bed[t][i].score)
          /\ pc = "done" =>
                \A i \in 1 .. Len(obj_out[t]) : ScoreInRange(obj_out[t][i].score)

\* a deletion with 100 of 100 k-mer confirmations, 5 read evidences and no
\* contradiction: num_confirmed is capped at 100, rate_confirmed is 100 and
\* the score is exactly 100
C22_Witness ==
    /\ f_pc = "scored"
    /\ f_in.type = "deletion" /\ f_in.sk = 100 /\ f_in.tk = 100
    /\ f_in.re = 5 /\ f_in.rc = 0
    /\ f_out.status = "ok"
    /\ f_out.score.num = 100
    /\ f_out.score.rnum = 100 * f_out.score.rden
    /\ ScoreLeq(FusedScore(100, 100, 1), f_out.score)


(***************************************************************************)
(* Claims about callPacParams, checked under SpecParams.                   *)
(***************************************************************************)
\* the three costs as the options object gives them
GivenCosts(o) == <<o["align_costs_match"], o["align_costs_mismatch"], o["align_costs_gap"]>>

AllCostsGiven(o) ==
    {"align_costs_match", "align_costs_mismatch", "align_costs_gap"} \subseteq DOMAIN o

\* C23: after set_with_options(options) every scalar parameter equals the
\* options attribute of the same name when options has it and keeps its
\* previous value when it has not, each parameter on its own; align_costs is
\* the triple of the three costs when options has all three and is unchanged
\* otherwise; the record has the same parameters as before; and the second
\* call with the same options leaves the record as the first call made it.
C23_OverrideByPresence ==
    /\ \A k \in 2 .. Len(p_hist) :
          LET before == p_hist[k - 1]
              after == p_hist[k]
          IN  /\ DOMAIN after = DOMAIN before
              /\ \A name \in Scalars :
                    after[name] = IF name \in DOMAIN p_options
                                  THEN p_options[name] ELSE before[name]
              /\ after.align_costs = IF AllCostsGiven(p_options)
                                     THEN GivenCosts(p_options) ELSE before.align_costs
    /\ Len(p_hist) = 3 => p_hist[3] = p_hist[2]
    /\ p_pc # "idle" => p_params = p_hist[Len(p_hist)]

\* options with tail_span and count_k (one of them None), with two of the
\* three costs and with an attribute align_costs, applied twice: the two
\* scalars are overridden, min_length and align_costs keep their defaults
C23_Witness ==
    /\ p_pc = "applied_twice"
    /\ DOMAIN p_options = {"tail_span", "count_k", "align_costs_match",
                           "align_costs_gap", "align_costs"}
    /\ p_options["tail_span"] = Num(7) /\ p_options["count_k"] = None
    /\ p_options["align_costs_match"] = Num(7)
    /\ p_params.tail_span = Num(7) /\ p_params.count_k = None
    /\ p_params.min_length = Num(50)
    /\ p_params.align_costs = <<Num(3), Num(-12), Num(-12)>>

=============================================================================
